---- MODULE Spec2Model ----
(***************************************************************************)
(* Model of server/mock_server.py: the mock WebRTC signalling and media    *)
(* server.  One session (one run of websocket_handler) is modelled in      *)
(* detail as a set of cooperatively scheduled asyncio tasks:               *)
(*   - the handler itself (the receive loop and the cleanup after it),      *)
(*   - the on_connectionstatechange callbacks, one task per emitted event,  *)
(*   - the on_track callbacks, one task per emitted track,                  *)
(*   - the send_transcriptions tasks created by asyncio.create_task.        *)
(* A step of the model is what one task does between two awaits.  Calls    *)
(* into aiortc / aiohttp are awaits: the call is invoked in one step and   *)
(* returns, or raises, in a later one.  Tasks that were scheduled and have  *)
(* not run yet start in the order they were scheduled (the ready queue of  *)
(* the event loop); a suspended task resumes whenever what it awaits is    *)
(* over.                                                                   *)
(* A second specification, SpecServer, models the server accepting         *)
(* sessions over time and the recording path each one derives.             *)
(* SpecEmitter follows the session from the moment its first offer has been *)
(* answered, for as many transcription messages as it takes to wrap around  *)
(* the pool of canned sentences.                                            *)
(***************************************************************************)
EXTENDS Integers, Sequences, FiniteSets, TLC

\* ---------------------------------------------------------------- bounds
\* events one session lives through: inbound websocket messages, remote
\* tracks the peer connection announces, transcription messages emitted
MaxEvents == 3
\* transcription messages one emitter sends (SpecEmitter)
MaxSends == 10
\* frames one synthetic audio track produces (SpecAudio)
MaxFrames == 3
\* wall clock horizon of the track, in clock ticks (SpecAudio)
MaxAudioTicks == 8
\* milliseconds per clock tick (SpecAudio)
AudioTickMs == 10
\* sessions the server accepts (SpecServer)
MaxSessions == 3
\* wall clock horizon, in clock ticks (SpecServer)
MaxClock == 5
\* clock ticks per second of time.time() (SpecServer)
TicksPerSecond == 2

\* ------------------------------------------------------ program constants
SAMPLE_RATE == 48000

\* FRAME_DURATION = 0.02 s, in milliseconds
FRAME_DURATION_MS == 20

\* int(SAMPLE_RATE * FRAME_DURATION)
SAMPLES_PER_FRAME == (SAMPLE_RATE * FRAME_DURATION_MS) \div 1000

TRANSCRIPTION_SAMPLES ==
    << "respiratory", "blood pressure", "heart rate", "oxygen",
       "no distress", "lungs", "temperature", "no allergies" >>

\* the JSON text frames a client can send, by what the handler does with them,
\* and the non-text frames
MsgKinds ==
    { "offer", "offer_nosdp", "badjson", "cand_empty", "cand",
      "close", "error", "binary" }

TrackKinds == { "audio", "video" }

VARIABLES
    hpc,        \* position of websocket_handler
    err,        \* the exception that left websocket_handler, "none" if none
    cur,        \* the message the receive loop is processing
    nrecv,      \* messages the receive loop has taken from the socket
    wsOpen,     \* the websocket can still carry frames
    pcState,    \* pc.connectionState
    negotiated, \* the remote and the local description have been applied to pc
    pcTracks,   \* synthetic audio tracks added to pc
    nAnnounced, \* remote tracks the peer connection has announced
    ready,      \* tasks scheduled and not yet run, in scheduling order
    cbInStop,   \* on_connectionstatechange tasks suspended in recorder.stop()
    trkInStart, \* on_track tasks suspended in recorder.start()
    recorder,   \* the MediaRecorder of the session
    tasks,      \* the send_transcriptions tasks, in creation order
    sent,       \* the messages written to the socket, in order
    now,        \* SpecServer: the wall clock, in ticks
    sess,       \* SpecServer: the sessions of the server
    aClock,     \* SpecAudio: time.time(), in milliseconds
    aStart,     \* SpecAudio: SyntheticAudioTrack._start, in milliseconds
    aTimestamp, \* SpecAudio: SyntheticAudioTrack._timestamp, in samples
    aPc,        \* SpecAudio: position of recv: "idle" or "sleeping"
    aWake,      \* SpecAudio: when the sleep of recv is over, in milliseconds
    frames      \* SpecAudio: the frames recv has returned, with the time of return

vars ==
    << hpc, err, cur, nrecv, wsOpen, pcState, negotiated, pcTracks, nAnnounced,
       ready, cbInStop, trkInStart, recorder, tasks,
       sent, now, sess, aClock, aStart, aTimestamp, aPc, aWake, frames >>

sessionVars ==
    << hpc, err, cur, nrecv, wsOpen, pcState, negotiated, pcTracks, nAnnounced,
       ready, cbInStop, trkInStart, recorder, tasks,
       sent >>

serverVars == << now, sess >>

audioVars == << aClock, aStart, aTimestamp, aPc, aWake, frames >>

handlerVars == << hpc, err, cur, nrecv >>

pcVars == << pcState, negotiated, pcTracks, nAnnounced >>

cbVars == << ready, cbInStop >>

trkVars == << trkInStart >>

\* ---------------------------------------------------------------- helpers
\* transcription_task: the handle names the task created last, 0 is None
transcription_task == Len(tasks)

\* task.done()
TaskDone(t) == t.st = "done"

\* a send_transcriptions coroutine as asyncio.create_task leaves it:
\* idx = 0, not yet run, no cancellation requested
NewTaskFromIdx1 == [st |-> "new", idx |-> 1, cancels |-> 0, pending |-> FALSE]

NewTask == [st |-> "new", idx |-> 0, cancels |-> 0, pending |-> FALSE]

\* task.cancel() on a task that is not done: the request is counted and
\* stays pending until the task next runs
CancelTask(t) == [t EXCEPT !.cancels = @ + 1, !.pending = TRUE]

\* "if transcription_task and not transcription_task.done():
\*      transcription_task.cancel()"
CancelIfRunning(ts) ==
    IF Len(ts) > 0 /\ ~TaskDone(ts[Len(ts)])
    THEN [ts EXCEPT ![Len(ts)] = CancelTask(@)]
    ELSE ts

\* "except asyncio.CancelledError: pass": the coroutine returns
OnCancelledKeepLooping(t) == [t EXCEPT !.st = "sleep", !.pending = FALSE]

OnCancelled(t) == [t EXCEPT !.st = "done", !.pending = FALSE]

\* "except Exception: break" around ws.send_json: the loop is left and the
\* coroutine returns, idx as it was
OnSendFailureContinue(t) == [t EXCEPT !.st = "sleep", !.idx = @ + 1]

OnSendFailure(t) == [t EXCEPT !.st = "done"]

\* text = TRANSCRIPTION_SAMPLES[idx % len(TRANSCRIPTION_SAMPLES)]
TextAtNoWrap(idx) ==
    TRANSCRIPTION_SAMPLES[IF idx < Len(TRANSCRIPTION_SAMPLES)
                          THEN idx + 1 ELSE Len(TRANSCRIPTION_SAMPLES)]

TextAt(idx) == TRANSCRIPTION_SAMPLES[(idx % Len(TRANSCRIPTION_SAMPLES)) + 1]

TranscriptionMsg(idx) == [type |-> "transcription", text |-> TextAt(idx)]

AnswerMsg == [type |-> "answer", text |-> "sdp"]

\* "if candidate_str:": only a candidate string that is there and not empty
\* goes to RTCIceCandidate and pc.addIceCandidate
ForwardsCandidateAlways(m) == TRUE

ForwardsCandidate(m) == m = "cand"

\* "if recorder:" / "if recorder is None:"
HasRecorder == recorder.n > 0

NoRecorder == [n |-> 0, tracks |-> <<>>, starts |-> 0, stops |-> 0]

\* int(time.time()): the clock truncated to whole seconds
EpochSeconds(t) == t \div TicksPerSecond

\* recording_path: "recording_<int(time.time())>.mp4" under recordings_dir
RecordingPath(t) == << "recordings", "recording_", EpochSeconds(t), ".mp4" >>

\* transcription messages written to the socket so far
NumTranscriptions == Cardinality({i \in DOMAIN sent : sent[i].type = "transcription"})

\* the events of the session so far
EventsUsed == nrecv + nAnnounced + NumTranscriptions

\* ------------------------------------------------------------------- Init
\* the session after lines 63-74: socket prepared, pc created, no recorder,
\* no transcription task, the receive loop about to take its first message
InitSession ==
    /\ hpc = "recv"
    /\ err = "none"
    /\ cur = "none"
    /\ nrecv = 0
    /\ wsOpen = TRUE
    /\ pcState = "new"
    /\ negotiated = FALSE
    /\ pcTracks = 0
    /\ nAnnounced = 0
    /\ ready = <<>>
    /\ cbInStop = 0
    /\ trkInStart = 0
    /\ recorder = NoRecorder
    /\ tasks = <<>>
    /\ sent = <<>>

InitServer ==
    /\ now = 0
    /\ sess = [s \in 1..MaxSessions |-> [status |-> "none", path |-> <<>>]]

\* SyntheticAudioTrack.__init__, lines 37-40
InitTrack ==
    /\ aClock = 0
    /\ aStart = 0
    /\ aTimestamp = 0
    /\ aPc = "idle"
    /\ aWake = 0
    /\ frames = <<>>

Init == InitSession /\ InitServer /\ InitTrack

\* ------------------------------------------------- websocket_handler steps
\* an exception leaves websocket_handler: nothing after the raising line runs,
\* the cleanup of lines 167-177 included; aiohttp then drops the connection
Raise(e) ==
    /\ hpc' = "crashed"
    /\ err' = e
    /\ wsOpen' = FALSE

\* lines 167-177 up to the first await: cancel the transcription task, then
\* either recorder.stop() or, with no recorder, pc.close()
BeginCleanup ==
    /\ tasks' = CancelIfRunning(tasks)
    /\ IF HasRecorder
       THEN /\ recorder' = [recorder EXCEPT !.stops = @ + 1]
            /\ hpc' = "cleanup_stop"
       ELSE /\ recorder' = recorder
            /\ hpc' = "cleanup_close"

\* "async for msg in ws" delivers a text frame that json.loads rejects, or an
\* offer without "sdp" (data["sdp"] raises KeyError): lines 123 and 128
RecvMalformed ==
    /\ hpc = "recv" /\ wsOpen /\ EventsUsed < MaxEvents
    /\ \E m \in {"badjson", "offer_nosdp"} :
          /\ cur' = m
          /\ Raise(IF m = "badjson" THEN "JSONDecodeError" ELSE "KeyError")
    /\ nrecv' = nrecv + 1
    /\ UNCHANGED << pcVars, cbVars, trkVars, recorder, tasks, sent, serverVars, audioVars >>

\* lines 126-129: an offer; pc.setRemoteDescription(offer) is awaited
RecvOffer ==
    /\ hpc = "recv" /\ wsOpen /\ EventsUsed < MaxEvents
    /\ cur' = "offer"
    /\ nrecv' = nrecv + 1
    /\ hpc' = "setRemote"
    /\ UNCHANGED << err, wsOpen, pcVars, cbVars, trkVars, recorder, tasks,
                    sent, serverVars, audioVars >>

\* lines 147-157: a candidate; an empty or absent candidate string is skipped,
\* any other is handed to RTCIceCandidate and pc.addIceCandidate
RecvCandidate ==
    /\ hpc = "recv" /\ wsOpen /\ EventsUsed < MaxEvents
    /\ \E m \in {"cand_empty", "cand"} :
          /\ cur' = m
          /\ hpc' = IF ForwardsCandidate(m) THEN "addIce" ELSE "recv"
    /\ nrecv' = nrecv + 1
    /\ UNCHANGED << err, wsOpen, pcVars, cbVars, trkVars, recorder, tasks,
                    sent, serverVars, audioVars >>

\* a frame that is neither text, close nor error falls through the if chain
RecvIgnored ==
    /\ hpc = "recv" /\ wsOpen /\ EventsUsed < MaxEvents
    /\ cur' = "binary"
    /\ nrecv' = nrecv + 1
    /\ UNCHANGED << hpc, err, wsOpen, pcVars, cbVars, trkVars, recorder,
                    tasks, sent, serverVars, audioVars >>

\* lines 160-165: a close frame or a socket error breaks the loop
RecvClose ==
    /\ hpc = "recv" /\ wsOpen /\ EventsUsed < MaxEvents
    /\ \E m \in {"close", "error"} : cur' = m
    /\ nrecv' = nrecv + 1
    /\ wsOpen' = FALSE
    /\ BeginCleanup
    /\ UNCHANGED << err, pcVars, cbVars, trkVars, sent, serverVars, audioVars >>

\* the socket is gone: "async for" ends without a message
RecvEnd ==
    /\ hpc = "recv" /\ ~wsOpen
    /\ BeginCleanup
    /\ UNCHANGED << err, cur, nrecv, wsOpen, pcVars, cbVars, trkVars, sent,
                    serverVars, audioVars >>

\* line 129 returns or raises; on return lines 132-135: the synthetic audio
\* track is added and pc.createAnswer() is awaited
SetRemoteReturns ==
    /\ hpc = "setRemote"
    /\ \E ok \in BOOLEAN :
          IF ok
          THEN /\ pcTracks' = pcTracks + 1
               /\ hpc' = "createAnswer"
               /\ UNCHANGED << err, wsOpen >>
          ELSE /\ Raise("setRemoteDescription")
               /\ pcTracks' = pcTracks
    /\ UNCHANGED << cur, nrecv, pcState, negotiated, nAnnounced, cbVars,
                    trkVars, recorder, tasks, sent, serverVars, audioVars >>

\* line 135 returns or raises; on return pc.setLocalDescription is awaited
CreateAnswerReturns ==
    /\ hpc = "createAnswer"
    /\ \E ok \in BOOLEAN :
          IF ok
          THEN /\ hpc' = "setLocal"
               /\ UNCHANGED << err, wsOpen >>
          ELSE Raise("createAnswer")
    /\ UNCHANGED << cur, nrecv, pcVars, cbVars, trkVars, recorder, tasks,
                    sent, serverVars, audioVars >>

\* line 136 returns or raises; on return lines 138-141: the answer is
\* written to the socket, which raises when the socket is gone
SetLocalReturns ==
    /\ hpc = "setLocal"
    /\ \E ok \in BOOLEAN :
          IF ~ok
          THEN /\ Raise("setLocalDescription")
               /\ UNCHANGED << sent, negotiated >>
          ELSE /\ negotiated' = TRUE
               /\ IF wsOpen
                  THEN /\ sent' = Append(sent, AnswerMsg)
                       /\ hpc' = "sendAnswer"
                       /\ UNCHANGED << err, wsOpen >>
                  ELSE /\ Raise("send_json")
                       /\ sent' = sent
    /\ UNCHANGED << cur, nrecv, pcState, pcTracks, nAnnounced, cbVars,
                    trkVars, recorder, tasks, serverVars, audioVars >>

\* ws.send_json of the answer returns (it can raise once the socket is gone);
\* on return line 145 creates the transcription task and rebinds the handle
SendAnswerReturns ==
    /\ hpc = "sendAnswer"
    /\ \E ok \in (IF wsOpen THEN {TRUE} ELSE BOOLEAN) :
          IF ok
          THEN /\ tasks' = Append(tasks, NewTask)
               /\ ready' = Append(ready, "task")
               /\ hpc' = "recv"
               /\ UNCHANGED << err, wsOpen >>
          ELSE /\ Raise("send_json")
               /\ UNCHANGED << tasks, ready >>
    /\ UNCHANGED << cur, nrecv, pcVars, cbInStop, trkVars, recorder,
                    sent, serverVars, audioVars >>

\* lines 152-158: RTCIceCandidate(...) and pc.addIceCandidate return or raise
AddIceReturns ==
    /\ hpc = "addIce"
    /\ \E ok \in BOOLEAN :
          IF ok
          THEN /\ hpc' = "recv"
               /\ UNCHANGED << err, wsOpen >>
          ELSE Raise("addIceCandidate")
    /\ UNCHANGED << cur, nrecv, pcVars, cbVars, trkVars, recorder, tasks,
                    sent, serverVars, audioVars >>

\* lines 172-177: recorder.stop() returns, or raises and is caught; either
\* way pc.close() is awaited next
CleanupStopReturns ==
    /\ hpc = "cleanup_stop"
    /\ hpc' = "cleanup_close"
    /\ UNCHANGED << err, cur, nrecv, wsOpen, pcVars, cbVars, trkVars,
                    recorder, tasks, sent, serverVars, audioVars >>

\* lines 177-179: pc.close() moves the connection state to closed, which
\* emits connectionstatechange, and the handler returns ws
PcCloseReturns ==
    /\ hpc = "cleanup_close"
    /\ hpc' = "done"
    /\ wsOpen' = FALSE
    /\ pcState' = "closed"
    /\ ready' = IF pcState # "closed" THEN Append(ready, "cb") ELSE ready
    /\ UNCHANGED << err, cur, nrecv, negotiated, pcTracks, nAnnounced,
                    cbInStop, trkVars, recorder, tasks, sent,
                    serverVars, audioVars >>

\* --------------------------------------------------- the peer and the library
\* the client vanishes without a close frame
Disconnect ==
    /\ wsOpen
    /\ hpc \notin {"done", "crashed"}
    /\ wsOpen' = FALSE
    /\ UNCHANGED << handlerVars, pcVars, cbVars, trkVars, recorder, tasks,
                    sent, serverVars, audioVars >>

\* while setRemoteDescription runs, pc emits "track" for a remote track:
\* line 87 schedules on_track(track)
TrackAnnounced ==
    /\ hpc = "setRemote"
    /\ EventsUsed < MaxEvents
    /\ \E k \in TrackKinds : ready' = Append(ready, k)
    /\ nAnnounced' = nAnnounced + 1
    /\ UNCHANGED << handlerVars, wsOpen, pcState, negotiated, pcTracks,
                    cbInStop, trkInStart, recorder, tasks, sent,
                    serverVars, audioVars >>

\* the transports of a pc with both descriptions applied come up: connectionstatechange is
\* emitted, line 76 schedules on_connectionstatechange()
PcConnected ==
    /\ negotiated /\ pcState = "new"
    /\ pcState' = "connected"
    /\ ready' = Append(ready, "cb")
    /\ UNCHANGED << handlerVars, wsOpen, negotiated, pcTracks, nAnnounced,
                    cbInStop, trkVars, recorder, tasks, sent,
                    serverVars, audioVars >>

\* the transports of a negotiated pc fail
PcFailed ==
    /\ negotiated /\ pcState \in {"new", "connected"}
    /\ pcState' = "failed"
    /\ ready' = Append(ready, "cb")
    /\ UNCHANGED << handlerVars, wsOpen, negotiated, pcTracks, nAnnounced,
                    cbInStop, trkVars, recorder, tasks, sent,
                    serverVars, audioVars >>

\* ------------------------------------------------ on_connectionstatechange
\* lines 78-85 up to the first await: the state is read when the callback
\* runs; with a recorder, recorder.stop() is awaited before the cancel
ConnStateRun ==
    /\ ready # <<>> /\ Head(ready) = "cb"
    /\ ready' = Tail(ready)
    /\ IF pcState \in {"failed", "closed"}
       THEN IF HasRecorder
            THEN /\ recorder' = [recorder EXCEPT !.stops = @ + 1]
                 /\ cbInStop' = cbInStop + 1
                 /\ tasks' = tasks
            ELSE /\ tasks' = CancelIfRunning(tasks)
                 /\ UNCHANGED << recorder, cbInStop >>
       ELSE UNCHANGED << recorder, cbInStop, tasks >>
    /\ UNCHANGED << handlerVars, wsOpen, pcVars, trkVars, sent,
                    serverVars, audioVars >>

\* line 82 returns, then lines 83-85; or it raises and the callback ends there
ConnStateStopReturns ==
    /\ cbInStop > 0
    /\ cbInStop' = cbInStop - 1
    /\ \E ok \in BOOLEAN :
          tasks' = IF ok THEN CancelIfRunning(tasks) ELSE tasks
    /\ UNCHANGED << handlerVars, wsOpen, pcVars, ready, trkVars, recorder,
                    sent, serverVars, audioVars >>

\* ---------------------------------------------------------------- on_track
\* line 94: which tracks make on_track start the recorder
StartsRecorderAny(k) == TRUE

StartsRecorder(k) == k = "video"

\* lines 89-96 up to the first await: create the recorder if there is none,
\* attach the track, and for a video track await recorder.start()
TrackRun ==
    /\ ready # <<>>
    /\ \E k \in TrackKinds :
          /\ Head(ready) = k
          /\ ready' = Tail(ready)
          /\ recorder' =
                [n      |-> IF recorder.n = 0 THEN 1 ELSE recorder.n,
                 tracks |-> Append(recorder.tracks, k),
                 starts |-> IF StartsRecorder(k) THEN recorder.starts + 1
                                                 ELSE recorder.starts,
                 stops  |-> recorder.stops]
          /\ trkInStart' = IF StartsRecorder(k) THEN trkInStart + 1
                                                ELSE trkInStart
    /\ UNCHANGED << handlerVars, wsOpen, pcVars, cbInStop, tasks, sent,
                    serverVars, audioVars >>

\* line 96 returns or raises: the callback ends
TrackStartReturns ==
    /\ trkInStart > 0
    /\ trkInStart' = trkInStart - 1
    /\ UNCHANGED << handlerVars, wsOpen, pcVars, cbVars, recorder, tasks,
                    sent, serverVars, audioVars >>

\* ------------------------------------------------------ send_transcriptions

\* the task runs for the first time, lines 101-104: it reaches the first
\* sleep, or a cancel that came before its first step ends it
TaskStart(i) ==
    /\ ready # <<>> /\ Head(ready) = "task"
    /\ tasks[i].st = "new"
    /\ \A j \in 1..(i - 1) : tasks[j].st # "new"
    /\ ready' = Tail(ready)
    /\ tasks' = [tasks EXCEPT ![i] =
                    IF @.pending THEN [@ EXCEPT !.st = "done", !.pending = FALSE]
                                 ELSE [@ EXCEPT !.st = "sleep"]]
    /\ UNCHANGED << handlerVars, wsOpen, pcVars, cbInStop, trkVars,
                    recorder, sent, serverVars, audioVars >>

\* the sleep of line 104 is over, lines 105-112: the message is written to
\* the socket and the send awaited; with the socket gone send_json raises and
\* line 115 leaves the loop
TaskTickBody(i) ==
    /\ tasks[i].st = "sleep" /\ ~tasks[i].pending
    /\ IF wsOpen
       THEN /\ sent' = Append(sent, TranscriptionMsg(tasks[i].idx))
            /\ tasks' = [tasks EXCEPT ![i].st = "send"]
       ELSE /\ sent' = sent
            /\ tasks' = [tasks EXCEPT ![i] = OnSendFailure(@)]
    /\ UNCHANGED << handlerVars, wsOpen, pcVars, cbVars, trkVars, recorder,
                    serverVars, audioVars >>

TaskTick(i) ==
    /\ wsOpen => EventsUsed < MaxEvents
    /\ TaskTickBody(i)

\* line 112 returns, lines 113-116: idx += 1 and the next sleep; or it raises
\* (the socket went away) and line 115 leaves the loop
TaskSendReturns(i) ==
    /\ tasks[i].st = "send" /\ ~tasks[i].pending
    /\ \E ok \in (IF wsOpen THEN {TRUE} ELSE BOOLEAN) :
          tasks' = [tasks EXCEPT ![i] =
                       IF ok THEN [@ EXCEPT !.st = "sleep", !.idx = @ + 1]
                             ELSE OnSendFailure(@)]
    /\ UNCHANGED << handlerVars, wsOpen, pcVars, cbVars, trkVars, recorder,
                    sent, serverVars, audioVars >>

\* a pending cancel is delivered at the await the task is suspended in
\* (the sleep or the send): lines 117-118
TaskCancelled(i) ==
    /\ tasks[i].st \in {"sleep", "send"} /\ tasks[i].pending
    /\ tasks' = [tasks EXCEPT ![i] = OnCancelled(@)]
    /\ UNCHANGED << handlerVars, wsOpen, pcVars, cbVars, trkVars, recorder,
                    sent, serverVars, audioVars >>

TaskStep ==
    \E i \in DOMAIN tasks :
        \/ TaskStart(i)
        \/ TaskTick(i)
        \/ TaskSendReturns(i)
        \/ TaskCancelled(i)

\* ------------------------------------------------------------------- Next
Next ==
    \/ RecvMalformed
    \/ RecvOffer
    \/ RecvCandidate
    \/ RecvIgnored
    \/ RecvClose
    \/ RecvEnd
    \/ SetRemoteReturns
    \/ CreateAnswerReturns
    \/ SetLocalReturns
    \/ SendAnswerReturns
    \/ AddIceReturns
    \/ CleanupStopReturns
    \/ PcCloseReturns
    \/ Disconnect
    \/ TrackAnnounced
    \/ PcConnected
    \/ PcFailed
    \/ ConnStateRun
    \/ ConnStateStopReturns
    \/ TrackRun
    \/ TrackStartReturns
    \/ TaskStep

Spec == Init /\ [][Next]_vars

\* --------------------------------------------- the emitter (SpecEmitter)
\* the session when its first offer has been handled to the end (line 145):
\* the answer is on the socket, the transcription task is created and
\* scheduled, the receive loop waits for the next message
InitEmitter ==
    /\ hpc = "recv"
    /\ err = "none"
    /\ cur = "offer"
    /\ nrecv = 1
    /\ wsOpen = TRUE
    /\ pcState = "new"
    /\ negotiated = TRUE
    /\ pcTracks = 1
    /\ nAnnounced = 0
    /\ ready = << "task" >>
    /\ cbInStop = 0
    /\ trkInStart = 0
    /\ recorder = NoRecorder
    /\ tasks = << NewTask >>
    /\ sent = << AnswerMsg >>
    /\ InitServer
    /\ InitTrack

\* the loop of lines 103-116, for MaxSends messages
EmitterTick ==
    \E i \in DOMAIN tasks :
        /\ wsOpen => NumTranscriptions < MaxSends
        /\ TaskTickBody(i)

EmitterStep ==
    \E i \in DOMAIN tasks :
        \/ TaskStart(i)
        \/ TaskSendReturns(i)
        \/ TaskCancelled(i)

NextEmitter ==
    \/ EmitterTick
    \/ EmitterStep
    \/ Disconnect
    \/ RecvEnd
    \/ PcCloseReturns
    \/ ConnStateRun

SpecEmitter == InitEmitter /\ [][NextEmitter]_vars

\* ------------------------------------ the synthetic audio track (SpecAudio)
\* expected = self._timestamp / SAMPLE_RATE, in milliseconds
Due(ts) == (ts * 1000) \div SAMPLE_RATE

\* lines 44-46: wait = expected - elapsed, elapsed = time.time() - self._start
WaitReversed(ts, t) == (t - aStart) - Due(ts)

Wait(ts, t) == Due(ts) - (t - aStart)

\* line 59: self._timestamp += SAMPLES_PER_FRAME
NextTimestampByDuration(ts) == ts + FRAME_DURATION_MS

NextTimestamp(ts) == ts + SAMPLES_PER_FRAME

\* lines 50-60: the frame gets pts = self._timestamp, the counter moves on
\* and recv returns the frame
ProduceFrame ==
    /\ frames' = Append(frames, [pts |-> aTimestamp, at |-> aClock])
    /\ aTimestamp' = NextTimestamp(aTimestamp)
    /\ aPc' = "idle"

\* the session when line 133 has added the track of its first offer to pc
InitAudio ==
    /\ hpc = "createAnswer"
    /\ err = "none"
    /\ cur = "offer"
    /\ nrecv = 1
    /\ wsOpen = TRUE
    /\ pcState = "new"
    /\ negotiated = FALSE
    /\ pcTracks = 1
    /\ nAnnounced = 0
    /\ ready = <<>>
    /\ cbInStop = 0
    /\ trkInStart = 0
    /\ recorder = NoRecorder
    /\ tasks = <<>>
    /\ sent = <<>>
    /\ InitServer
    /\ InitTrack

\* the consumer calls recv, lines 44-48: a frame that is not due yet makes
\* recv sleep for the time that is missing, a frame that is due is produced
RecvFrame ==
    /\ aPc = "idle"
    /\ Len(frames) < MaxFrames
    /\ IF Wait(aTimestamp, aClock) > 0
       THEN /\ aPc' = "sleeping"
            /\ aWake' = aClock + Wait(aTimestamp, aClock)
            /\ UNCHANGED << aTimestamp, frames >>
       ELSE /\ ProduceFrame
            /\ aWake' = aWake
    /\ UNCHANGED << aClock, aStart, sessionVars, serverVars >>

\* asyncio.sleep(wait) is over, at the time asked for or later
SleepOver ==
    /\ aPc = "sleeping"
    /\ aClock >= aWake
    /\ ProduceFrame
    /\ UNCHANGED << aClock, aStart, aWake, sessionVars, serverVars >>

\* time passes
AudioClockTick ==
    /\ aClock < MaxAudioTicks * AudioTickMs
    /\ aClock' = aClock + AudioTickMs
    /\ UNCHANGED << aStart, aTimestamp, aPc, aWake, frames, sessionVars,
                    serverVars >>

NextAudio ==
    \/ RecvFrame
    \/ SleepOver
    \/ AudioClockTick

SpecAudio == InitAudio /\ [][NextAudio]_vars

\* ------------------------------------------------ the server (SpecServer)
\* main(): every GET /ws runs websocket_handler; lines 63-74 give the new
\* session its recording_path from the clock at that moment
Accept(s) ==
    /\ sess[s].status = "none"
    /\ \A r \in 1..(s - 1) : sess[r].status # "none"
    /\ sess' = [sess EXCEPT ![s] = [status |-> "alive",
                                    path |-> RecordingPath(now)]]
    /\ now' = now
    /\ UNCHANGED << sessionVars, audioVars >>

\* websocket_handler of session s returns or raises
Finish(s) ==
    /\ sess[s].status = "alive"
    /\ sess' = [sess EXCEPT ![s].status = "ended"]
    /\ now' = now
    /\ UNCHANGED << sessionVars, audioVars >>

\* time passes
ClockTick ==
    /\ now < MaxClock
    /\ now' = now + 1
    /\ sess' = sess
    /\ UNCHANGED << sessionVars, audioVars >>

NextServer ==
    \/ \E s \in 1..MaxSessions : Accept(s)
    \/ \E s \in 1..MaxSessions : Finish(s)
    \/ ClockTick

SpecServer == Init /\ [][NextServer]_vars

\* ================================================================= claims
\* no callback of the session is scheduled or suspended
Quiescent ==
    /\ \A n \in DOMAIN ready : ready[n] = "task"
    /\ cbInStop = 0 /\ trkInStart = 0

LiveTasks == { i \in DOMAIN tasks : ~TaskDone(tasks[i]) }

NumAnswers == Cardinality({i \in DOMAIN sent : sent[i].type = "answer"})

\* the teardown the spec asks of every exit: the transcription task is not
\* left running uncancelled, an existing recorder has been stopped, pc closed
TornDown ==
    /\ \A i \in LiveTasks : tasks[i].cancels > 0
    /\ HasRecorder => recorder.stops >= 1
    /\ pcState = "closed"

\* C1: idempotent teardown: whatever teardown triggers fire, the session
\* never invokes stop on its recorder more than once and never cancels a
\* transcription task more than once.
C1_IdempotentTeardown ==
    /\ recorder.stops <= 1
    /\ \A i \in DOMAIN tasks : tasks[i].cancels <= 1

\* C2: once the socket has closed (close frame, error, or the peer gone) and
\* the handler has ended, with no library rejection and no malformed message
\* involved, and all callbacks have run, the teardown has taken place: task
\* cancelled, recorder stopped, pc closed.
C2_CloseRunsCleanup ==
    ( /\ ~wsOpen
      /\ \/ hpc = "done"
         \/ hpc = "crashed" /\ err = "send_json"
      /\ Quiescent )
    => TornDown

\* C3: a text frame with unparsable JSON, or an offer without sdp, is dropped:
\* the step that receives it leaves the handler in the receive loop, the socket
\* open and the recorder, the tasks and the pc state unchanged.
C3_MalformedDropped ==
    [][ (nrecv' = nrecv + 1 /\ cur' \in {"badjson", "offer_nosdp"})
        => ( /\ hpc' = "recv"
             /\ wsOpen'
             /\ UNCHANGED << recorder, tasks, pcState, err >> ) ]_vars

NegotiationErrors == {"setRemoteDescription", "createAnswer", "setLocalDescription"}

\* C4: when the library rejects the offer or the answer, the session ends
\* with its cleanup done: once the callbacks have run, no transcription task is
\* left running uncancelled, an existing recorder is stopped and pc is closed.
C4_NegotiationFailureCleansUp ==
    (hpc = "crashed" /\ err \in NegotiationErrors /\ Quiescent) => TornDown

\* C5: at every moment the session has at most one recorder and at most one
\* live transcription task, and a live task is the one the handle names.
C5_AtMostOneRecorderAndTask ==
    /\ recorder.n <= 1
    /\ Cardinality(LiveTasks) <= 1
    /\ \A i \in LiveTasks : i = transcription_task

\* C6: two sessions alive at the same time have different recording paths.
C6_DistinctPaths ==
    \A s, t \in 1..MaxSessions :
        (s # t /\ sess[s].status = "alive" /\ sess[t].status = "alive")
        => sess[s].path # sess[t].path

\* C7: an error of recorder.stop() does not block the rest of a teardown
\* path: when the stop awaited by on_connectionstatechange is over, by a
\* return or by an error, the running transcription task is cancelled;
\* and the handler's cleanup always goes on from recorder.stop() to pc.close().
C7_StopErrorDoesNotBlock ==
    [][ /\ (cbInStop' < cbInStop => tasks' = CancelIfRunning(tasks))
        /\ (hpc = "cleanup_stop" /\ hpc' # hpc => hpc' = "cleanup_close") ]_vars

\* pc has reported failed or closed and every on_connectionstatechange
\* callback has run to its end
ClosedReported ==
    /\ pcState \in {"failed", "closed"}
    /\ \A n \in DOMAIN ready : ready[n] # "cb"
    /\ cbInStop = 0

\* C8: Closed is terminal: once pc has reported failed or closed, the recorder
\* is stopped and the running task cancelled, and no later step starts a
\* transcription task, sends a transcription, or creates or starts a recorder.
C8_ClosedIsTerminal ==
    /\ [](ClosedReported =>
            /\ \A i \in LiveTasks : tasks[i].cancels > 0
            /\ HasRecorder => recorder.stops >= 1)
    /\ [][ ClosedReported =>
            /\ Len(tasks') = Len(tasks)
            /\ NumTranscriptions' = NumTranscriptions
            /\ recorder'.n = recorder.n
            /\ recorder'.starts = recorder.starts ]_vars

\* C9: a transcription task whose cancellation has been requested writes no
\* further transcription message: no step takes such a task into a send, and
\* a step that adds a transcription to the socket is the step of a task
\* nobody has cancelled.
C9_NoSendAfterCancel ==
    [][ /\ \A i \in DOMAIN tasks :
              tasks[i].cancels > 0
              => ~(tasks[i].st # "send" /\ tasks'[i].st = "send")
        /\ NumTranscriptions' > NumTranscriptions
              => \E i \in DOMAIN tasks :
                    /\ tasks[i].cancels = 0
                    /\ tasks[i].st = "sleep" /\ tasks'[i].st = "send" ]_vars

\* a cancel is pending on a task suspended in its send, and another task was
\* cancelled before and has ended, with one transcription on the socket
C9_Witness ==
    \E i, j \in DOMAIN tasks :
        /\ tasks[i].st = "send" /\ tasks[i].pending /\ tasks[i].cancels > 0
        /\ tasks[j].st = "done" /\ tasks[j].cancels > 0
        /\ NumTranscriptions = 1

\* C10: a valid offer is answered exactly once: there are never more answers
\* than accepted offers, a transcription task is created only after its
\* answer, and every offer handled to its end has exactly one answer; nothing
\* is sent before the first answer; the first transcription message carries
\* the first canned sentence.
C10_AnswerThenFirstSentence ==
    /\ NumAnswers <= pcTracks
    /\ Len(tasks) <= NumAnswers /\ NumAnswers <= Len(tasks) + 1
    /\ hpc = "recv" => NumAnswers = Len(tasks)
    /\ sent # <<>> => sent[1] = AnswerMsg
    /\ \A i \in DOMAIN sent :
          ( /\ sent[i].type = "transcription"
            /\ \A j \in 1..(i - 1) : sent[j].type = "answer" )
          => sent[i].text = TRANSCRIPTION_SAMPLES[1]

\* the first offer of an idle session was handled to its end and the first
\* tick has passed: one answer, then one transcription
C10_Witness ==
    /\ nrecv = 1 /\ cur = "offer" /\ hpc = "recv"
    /\ Len(tasks) = 1
    /\ Len(sent) = 2
    /\ sent[1].type = "answer" /\ sent[2].type = "transcription"

\* the transcription messages on the socket, in the order they were written
Transcriptions == SelectSeq(sent, LAMBDA m : m.type = "transcription")

\* C11: the i-th message (0-indexed) the emitter of a session writes carries
\* sentence i mod K of the pool of K canned sentences, for every i reached.
C11_CyclesThroughPool ==
    \A n \in DOMAIN Transcriptions :
        Transcriptions[n].text =
            TRANSCRIPTION_SAMPLES[((n - 1) % Len(TRANSCRIPTION_SAMPLES)) + 1]

\* the emitter has gone once around the pool and sent the first sentence again
C11_Witness ==
    /\ Len(Transcriptions) = Len(TRANSCRIPTION_SAMPLES) + 1
    /\ Transcriptions[Len(Transcriptions)].text = TRANSCRIPTION_SAMPLES[1]
    /\ Transcriptions[Len(TRANSCRIPTION_SAMPLES)].text =
          TRANSCRIPTION_SAMPLES[Len(TRANSCRIPTION_SAMPLES)]

\* C12: a transcription task whose send failed has stopped for good: a task
\* that finds the socket gone when its sleep is over ends in that step, the
\* step writes nothing and leaves the handler as it was (nothing is raised
\* into it), the cursor moves only when a send has returned, and a task that
\* has ended never runs or writes again.
C12_SendFailureStopsEmitter ==
    [][ \A i \in DOMAIN tasks :
          /\ TaskDone(tasks[i]) => tasks'[i] = tasks[i]
          /\ ( /\ ~tasks[i].pending
               /\ tasks[i].st \in {"sleep", "send"}
               /\ tasks'[i].st = "done" )
             => ( /\ ~wsOpen
                  /\ sent' = sent
                  /\ UNCHANGED << hpc, err >> )
          /\ tasks'[i].idx # tasks[i].idx
             => ( /\ tasks[i].st = "send" /\ tasks'[i].st = "sleep"
                  /\ tasks'[i].idx = tasks[i].idx + 1 )
          /\ ( /\ tasks[i].st = "sleep" /\ ~tasks[i].pending /\ ~wsOpen
               /\ tasks'[i] # tasks[i]
               /\ tasks'[i].cancels = tasks[i].cancels )
             => tasks'[i].st = "done" ]_vars

\* a task has ended on a failed send, uncancelled, after a message of its own
C12_Witness ==
    \E i \in DOMAIN tasks :
        /\ TaskDone(tasks[i]) /\ tasks[i].cancels = 0
        /\ ~wsOpen
        /\ NumTranscriptions > 0

\* C13: a candidate message whose candidate string is empty or absent is
\* ignored: the step that receives it makes no call into the ICE layer, raises
\* nothing and leaves the session as it was, back in the receive loop.
C13_EmptyCandidateIgnored ==
    [][ (nrecv' = nrecv + 1 /\ cur' = "cand_empty")
        => ( /\ hpc' = "recv"
             /\ UNCHANGED << err, wsOpen, pcVars, cbVars, trkVars, recorder,
                             tasks, sent >> ) ]_vars

\* a streaming session has taken an empty candidate and waits for the next
\* message
C13_Witness ==
    /\ cur = "cand_empty" /\ hpc = "recv" /\ err = "none" /\ wsOpen
    /\ nrecv = 2 /\ Len(tasks) = 1

\* C14: when the ICE layer rejects a non-empty candidate received after an
\* offer, the rejection is not fatal: the handler goes back to the receive
\* loop with the socket open and the recorder, the tasks and the pc unchanged.
C14_BadCandidateNotFatal ==
    [][ (hpc = "addIce" /\ pcTracks > 0 /\ hpc' # hpc)
        => ( /\ hpc' = "recv"
             /\ UNCHANGED << err, wsOpen, recorder, tasks, pcState >> ) ]_vars

\* C16: the n-th frame recv returns (0-indexed) has pts 960 * n: the
\* timestamps start at 0 and go up by the 960 samples of a frame each time.
C16_TimestampsBy960 ==
    /\ SAMPLES_PER_FRAME = 960
    /\ \A n \in DOMAIN frames : frames[n].pts = 960 * (n - 1)
    /\ aTimestamp = 960 * Len(frames)

\* three frames have been returned
C16_Witness ==
    /\ Len(frames) = 3
    /\ frames[3].pts = 1920

\* C17: recv returns no frame before its due instant, the start time of the
\* track plus the samples emitted before it divided by the sample rate,
\* whether the consumer calls early or late.
C17_NeverAheadOfRealTime ==
    \A n \in DOMAIN frames : frames[n].at >= aStart + Due(frames[n].pts)

\* a consumer that called early got its frame exactly when it was due, and a
\* consumer that called late got a later frame after its due instant
C17_Witness ==
    \E n, m \in DOMAIN frames :
        /\ n < m
        /\ frames[n].pts > 0
        /\ frames[n].at = aStart + Due(frames[n].pts)
        /\ frames[m].at > aStart + Due(frames[m].pts)

\* C18: a session has at most one recorder, made when its first track comes
\* in; every track that came in is attached to it; the recorder has been
\* started only if a video track is among the tracks attached, so a session
\* that got only audio tracks has not started it.
C18_StartOnlyWithVideo ==
    /\ recorder.n <= 1
    /\ HasRecorder <=> recorder.tracks # <<>>
    /\ Len(recorder.tracks) + Len(SelectSeq(ready, LAMBDA c : c \in TrackKinds))
          = nAnnounced
    /\ recorder.starts > 0
          => \E n \in DOMAIN recorder.tracks : recorder.tracks[n] = "video"
    /\ (\A n \in DOMAIN recorder.tracks : recorder.tracks[n] = "audio")
          => recorder.starts = 0

\* an audio track came first and made the recorder, not started; the video
\* track that came next started it
C18_Witness ==
    /\ recorder.n = 1
    /\ recorder.tracks = << "audio", "video" >>
    /\ recorder.starts = 1

\* C19: no stop of the recorder is invoked while a start of it is suspended,
\* and once the recorder has been stopped no track is attached to it and no
\* start of it is invoked.
C19_StartAndStopInOrder ==
    [][ /\ recorder'.stops > recorder.stops => trkInStart = 0
        /\ recorder.stops > 0 => /\ recorder'.tracks = recorder.tracks
                                 /\ recorder'.starts = recorder.starts ]_vars

====
